---- MODULE Spec2Model ----
(***************************************************************************)
(* whisper-stt: the push-to-talk capture session (RealtimeTranscriber and  *)
(* its HotkeyListener) and the daemon's PID-file guard (DaemonManager,     *)
(* run_daemon), as state machines.                                         *)
(*                                                                         *)
(* Spec       one RealtimeTranscriber: the owner thread calling start()    *)
(*            and stop(), the hotkey threads, the audio callback and the   *)
(*            transcription workers, interleaved statement by statement.   *)
(* DaemonSpec concurrent processes calling run_daemon on one PID file.     *)
(* WorkSpec   a started session: toggles, audio chunks and workers.        *)
(* StopSpec   a started session that the owner stops.                      *)
(* PidSpec    daemons and the clients' is_running, stop_daemon, get_pid.   *)
(* StatusSpec the writers and the readers of status.json.                  *)
(* CmdSpec    the commands' exit statuses, a failing start() included.     *)
(* HotkeySpec the listener thread, input event by input event.             *)
(* GuiSpec    the GUI's TranscriptionWorker, its cancel and its signals.   *)
(* MergeSpec  Diarizer.merge_with_transcription on bounded lists.          *)
(***************************************************************************)
EXTENDS Integers, Sequences, FiniteSets, TLC

\* ------------------------------------------------------------------ bounds
\* start() and stop() calls the owner makes, all together
MaxCalls == 2
\* F13 key-down events read by the listeners, all listeners together
MaxToggles == 3
\* chunks the audio callback delivers, all streams together
MaxChunks == 3
\* samples per chunk (CHUNK_SIZE frames of one channel, scaled down)
ChunkLen == 2
\* processes calling run_daemon
MaxProcs == 2
\* F13 key-down events read in WorkSpec
MaxPresses == 4
\* chunks the audio callback delivers in WorkSpec, all streams together
MaxFrames == 2
\* input events read_loop() yields in HotkeySpec
MaxEvents == 3
\* segments in each of the two lists given to merge_with_transcription
MaxSegs == 2
\* the latest time, in seconds, at which a segment begins or ends
MaxTime == 2

Listeners == 1..MaxCalls
\* recordings and their streams are named by the key-down event that began them
Recs == 1..(IF MaxPresses > MaxToggles THEN MaxPresses ELSE MaxToggles)
Procs == 1..MaxProcs

\* the chunks mutex when no thread holds it
Free == <<"free", 0>>

VARIABLES
    mode,          \* who built the session: "standalone" (run_realtime) or "daemon" (run_daemon)
    mainPc,        \* the owner thread's position in start() / stop()
    starts,        \* listeners created so far
    calls,         \* start() and stop() calls so far
    running,       \* RealtimeTranscriber._running
    recording,     \* RealtimeTranscriber._recording
    startTime,     \* RealtimeTranscriber._recording_start_time, 0 is None
    engine,        \* _transcriber: "none" (None), "loaded", "unloaded" (_model is None)
    audio,         \* RealtimeTranscriber._audio is not None
    stream,        \* RealtimeTranscriber._stream: 0 is None, else the stream's id
    openStreams,   \* the streams PortAudio has open
    chunks,        \* RealtimeTranscriber._audio_chunks
    hotkey,        \* RealtimeTranscriber._hotkey: 0 is None, else the listener
    hkRunning,     \* HotkeyListener._running, per listener
    hkIsRec,       \* HotkeyListener._is_recording, per listener
    hkDev,         \* HotkeyListener._device is open, per listener
    hkPc,          \* the listener thread's position
    hkRec,         \* the recording the listener's last toggle-on began
    toggles,       \* F13 key-down events read so far
    workers,       \* transcription worker threads, in spawn order
    statusExists,  \* status.json exists
    statusFile,    \* status.json's content, a JSON object
    pidFile,       \* daemon.pid: 0 is absent, else the PID written
    dPc,           \* per process: its position in run_daemon
    \* ---- history, read by no action
    captured,      \* per stream: the chunks its callback delivered, in order
    engineCalls,   \* the buffers handed to Transcriber.transcribe, in call order
    lastToggle,    \* "none", or the value the most recent toggle delivered
    stopSince,     \* stop() was called since the most recent toggle
    lastCall,      \* the owner's most recent call and how it ended
    hkCause,       \* why a listener thread ended
    offEnded,      \* recordings whose toggle-off handler has ended
    offAt,         \* per recording: chunks captured when its toggle-off came, -1 before
    stopped,       \* stop() has been called
    \* ---- the chunks mutex
    lock,          \* RealtimeTranscriber._chunks_lock: Free, or the thread holding it
    \* ---- a command-line client of the daemon (cmd_status, cmd_stop, the Waybar script)
    statusText,    \* status.json's bytes: "json" (statusFile, whole) or what they are instead
    cPc,           \* the client's position in the call it is making
    cSaw,          \* what the PID file held when the call checked that it exists
    cPid,          \* the PID get_pid returned to stop_daemon
    cRet,          \* the client's last call and what it returned
    sigterm,       \* the PIDs the client's call has sent SIGTERM
    \* ---- the listener on its own (HotkeySpec)
    events,        \* the kinds of the events read_loop() has yielded, in order
    delivered,     \* the on_toggle calls made: the value, and whether stop() had returned
    \* ---- the GUI's TranscriptionWorker (GuiSpec)
    gPc,           \* the worker thread's position in run()
    gCancelled,    \* TranscriptionWorker._is_cancelled
    gLog,          \* the signals emitted, in order, each with _is_cancelled at that moment
    gSaved,        \* save_transcript has written the transcript file
    gWin,          \* MainWindow: the view shown, self.worker is set, the GUI thread is
                   \* in worker.wait(), and how many of the signals it has handled
    \* ---- Diarizer.merge_with_transcription (MergeSpec)
    mSegs,         \* its argument segments
    mTrans,        \* its argument transcription_segments
    mOut           \* <<>> before the call, then the list it returned, in a 1-tuple

sessVars == <<mode, mainPc, starts, calls, running, recording, startTime, engine,
              audio, stream, openStreams, chunks, hotkey, hkRunning, hkIsRec, hkDev,
              hkPc, hkRec, toggles, workers, captured, engineCalls, lastToggle,
              stopSince, lastCall, hkCause, offEnded, offAt, stopped, lock>>
fileVars == <<statusExists, statusFile>>
procVars == <<pidFile, dPc>>
cliVars == <<statusText, cPc, cSaw, cPid, cRet, sigterm>>
earVars == <<events, delivered>>
guiVars == <<gPc, gCancelled, gLog, gSaved, gWin>>
mergeVars == <<mSegs, mTrans, mOut>>
extVars == <<earVars, guiVars, mergeVars>>
vars == <<sessVars, fileVars, procVars, cliVars, extVars>>

\* ------------------------------------------------------------ status file
\* daemon.py write_status: the dict it dumps
DaemonStatus(rec) == [recording |-> rec, model |-> "turbo", pid |-> 1]

\* dict.get(key, default) on the parsed file
StatusGet(key, default) == IF key \in DOMAIN statusFile THEN statusFile[key] ELSE default

NoFile == [model |-> "unknown"]

\* RealtimeTranscriber._write_status: an I/O error is swallowed
WriteStatus(rec, run, t) ==
    \E ok \in BOOLEAN :
        IF ok
        THEN /\ statusExists' = TRUE
             /\ statusFile' = [recording |-> rec, running |-> run, model |-> "turbo",
                               pid |-> 1, recording_start_time |-> t]
        ELSE UNCHANGED fileVars

\* RealtimeTranscriber._clear_status: an I/O error is swallowed
ClearStatus ==
    \E ok \in BOOLEAN :
        IF ok
        THEN /\ statusExists' = FALSE
             /\ statusFile' = NoFile
        ELSE UNCHANGED fileVars

\* ------------------------------------------------------------------ audio
\* the n-th chunk of stream s: ChunkLen samples, each named by stream and index
Chunk(s, n) == [i \in 1..ChunkLen |-> <<s, (n - 1) * ChunkLen + i>>]

\* chunks delivered so far, all streams together
RECURSIVE Delivered(_)
Delivered(S) == IF S = {} THEN 0
                ELSE LET s == CHOOSE x \in S : TRUE
                     IN  Len(captured[s]) + Delivered(S \ {s})

\* np.concatenate(chunks)
RECURSIVE Concatenate(_)
Concatenate(cs) == IF cs = <<>> THEN <<>> ELSE Head(cs) \o Concatenate(Tail(cs))

\* ------------------------------------------------------------------- Init
\* no client call has been made, and status.json is whole when it exists
IdleClient ==
    /\ cPc = "idle"
    /\ cSaw = 0
    /\ cPid = 0
    /\ cRet = [op |-> "none", ret |-> "none", saw |-> "none"]
    /\ sigterm = {}

\* no event has been read and no callback made
EarIdle ==
    /\ events = <<>>
    /\ delivered = <<>>

\* the GUI has no worker
GuiIdle ==
    /\ gPc = <<"none", 0>>
    /\ gCancelled = FALSE
    /\ gLog = <<>>
    /\ gSaved = FALSE
    /\ gWin = [view |-> "picker", worker |-> FALSE, waiting |-> FALSE, seen |-> 0]

\* no meeting is being transcribed
MergeIdle ==
    /\ mSegs = <<>>
    /\ mTrans = <<>>
    /\ mOut = <<>>

Init ==
    /\ mode \in {"standalone", "daemon"}
    /\ mainPc = "idle"
    /\ starts = 0
    /\ calls = 0
    /\ running = FALSE
    /\ recording = FALSE
    /\ startTime = 0
    /\ engine = "none"
    /\ audio = FALSE
    /\ stream = 0
    /\ openStreams = {}
    /\ chunks = <<>>
    /\ hotkey = 0
    /\ hkRunning = [l \in Listeners |-> FALSE]
    /\ hkIsRec = [l \in Listeners |-> FALSE]
    /\ hkDev = [l \in Listeners |-> FALSE]
    /\ hkPc = [l \in Listeners |-> "none"]
    /\ hkRec = [l \in Listeners |-> 0]
    /\ toggles = 0
    /\ workers = <<>>
    /\ captured = [s \in Recs |-> <<>>]
    /\ engineCalls = <<>>
    /\ lastToggle = "none"
    /\ stopSince = FALSE
    /\ lastCall = "none"
    /\ hkCause = [l \in Listeners |-> "none"]
    /\ offEnded = {}
    /\ offAt = [k \in Recs |-> -1]
    /\ stopped = FALSE
    /\ lock = Free
    /\ statusText = "json"
    /\ IdleClient
    /\ EarIdle
    /\ GuiIdle
    /\ MergeIdle
    \* run_daemon writes the status file before it builds the session
    /\ statusExists = (mode = "daemon")
    /\ statusFile = IF mode = "daemon" THEN DaemonStatus(FALSE) ELSE NoFile
    /\ pidFile = IF mode = "daemon" THEN 1 ELSE 0
    /\ dPc = [p \in Procs |-> IF p = 1 /\ mode = "daemon" THEN "serving" ELSE "off"]

\* ------------------------------------------------- the owner thread: start()
\* start() without the check of _running: every call starts up
StartCallAgain ==
    /\ mainPc = "idle"
    /\ calls < MaxCalls
    /\ calls' = calls + 1
    /\ lastCall' = "start"
    /\ mainPc' = "start_load"
    /\ UNCHANGED <<mode, starts, running, recording, startTime, engine, audio,
                   stream, openStreams, chunks, hotkey, hkRunning, hkIsRec, hkDev, hkPc,
                   hkRec, toggles, workers, captured, engineCalls, lastToggle, stopSince,
                   hkCause, offEnded, fileVars, procVars, cliVars, lock, offAt, stopped, extVars>>

\* start(), lines 86-87: a running session returns at once
StartCall ==
    /\ mainPc = "idle"
    /\ calls < MaxCalls
    /\ calls' = calls + 1
    /\ IF running
       THEN /\ lastCall' = "start_noop"
            /\ UNCHANGED mainPc
       ELSE /\ lastCall' = "start"
            /\ mainPc' = "start_load"
    /\ UNCHANGED <<mode, starts, running, recording, startTime, engine, audio,
                   stream, openStreams, chunks, hotkey, hkRunning, hkIsRec, hkDev, hkPc,
                   hkRec, toggles, workers, captured, engineCalls, lastToggle, stopSince,
                   hkCause, offEnded, fileVars, procVars, cliVars, lock, offAt, stopped, extVars>>

\* start(), lines 91-98: Transcriber(), the model load, get_typer(), PyAudio().
\* The model load and PyAudio() may raise; get_typer() falls back and never does.
StartLoad ==
    /\ mainPc = "start_load"
    /\ \E outcome \in {"ok", "load_fails", "pyaudio_fails"} :
          /\ engine' = IF outcome = "load_fails" THEN "unloaded" ELSE "loaded"
          /\ audio' = IF outcome = "ok" THEN TRUE ELSE audio
          /\ mainPc' = IF outcome = "ok" THEN "start_hotkey" ELSE "idle"
          /\ lastCall' = IF outcome = "ok" THEN lastCall ELSE "start_raised"
    /\ UNCHANGED <<mode, starts, calls, running, recording, startTime, stream,
                   openStreams, chunks, hotkey, hkRunning, hkIsRec, hkDev, hkPc, hkRec,
                   toggles, workers, captured, engineCalls, lastToggle, stopSince,
                   hkCause, offEnded, fileVars, procVars, cliVars, lock, offAt, stopped, extVars>>

\* HotkeyListener.start(), hotkey.py 84-105, on a fresh listener l: no device found
\* (RuntimeError) or no access to it (PermissionError) raises before _running is set
HotkeyStart(l, ok) ==
    /\ hkRunning' = [hkRunning EXCEPT ![l] = ok]
    /\ hkDev' = [hkDev EXCEPT ![l] = ok]
    /\ hkPc' = [hkPc EXCEPT ![l] = IF ok THEN "read" ELSE "none"]

\* start(), lines 100-104: _running = True, HotkeyListener(...), its start()
StartHotkey ==
    /\ mainPc = "start_hotkey"
    /\ running' = TRUE
    /\ starts' = starts + 1
    /\ hotkey' = starts + 1
    /\ \E ok \in BOOLEAN :
          /\ HotkeyStart(starts + 1, ok)
          /\ mainPc' = IF ok THEN "start_status" ELSE "idle"
          /\ lastCall' = IF ok THEN lastCall ELSE "start_raised"
    /\ UNCHANGED <<mode, calls, recording, startTime, engine, audio, stream,
                   openStreams, chunks, hkIsRec, hkRec, toggles, workers, captured,
                   engineCalls, lastToggle, stopSince, hkCause, offEnded, fileVars,
                   procVars, cliVars, lock, offAt, stopped, extVars>>

\* start(), line 105: _write_status()
StartStatus ==
    /\ mainPc = "start_status"
    /\ WriteStatus(recording, running, startTime)
    /\ mainPc' = "idle"
    /\ lastCall' = "start_done"
    /\ UNCHANGED <<mode, starts, calls, running, recording, startTime, engine, audio,
                   stream, openStreams, chunks, hotkey, hkRunning, hkIsRec, hkDev, hkPc,
                   hkRec, toggles, workers, captured, engineCalls, lastToggle, stopSince,
                   hkCause, offEnded, procVars, cliVars, lock, offAt, stopped, extVars>>

\* -------------------------------------------------- the owner thread: stop()
\* stop(), line 109: _running = False, whatever the state
StopCall ==
    /\ mainPc = "idle"
    /\ calls < MaxCalls
    /\ calls' = calls + 1
    /\ running' = FALSE
    /\ stopSince' = TRUE
    /\ stopped' = TRUE
    /\ lastCall' = "stop"
    /\ mainPc' = "stop_hotkey"
    /\ UNCHANGED <<mode, starts, recording, startTime, engine, audio, stream,
                   openStreams, chunks, hotkey, hkRunning, hkIsRec, hkDev, hkPc, hkRec,
                   toggles, workers, captured, engineCalls, lastToggle, hkCause,
                   offEnded, fileVars, procVars, cliVars, lock, offAt, extVars>>

\* stop(), lines 111-112, HotkeyListener.stop(), hotkey.py 107-116: clears _running,
\* closes the device and joins the thread for at most a second, so it returns
\* whether or not the thread has ended
StopHotkey ==
    /\ mainPc = "stop_hotkey"
    /\ IF hotkey # 0
       THEN /\ hkRunning' = [hkRunning EXCEPT ![hotkey] = FALSE]
            /\ hkDev' = [hkDev EXCEPT ![hotkey] = FALSE]
       ELSE UNCHANGED <<hkRunning, hkDev>>
    /\ mainPc' = "stop_rec"
    /\ UNCHANGED <<mode, starts, calls, running, recording, startTime, engine, audio,
                   stream, openStreams, chunks, hotkey, hkIsRec, hkPc, hkRec, toggles,
                   workers, captured, engineCalls, lastToggle, stopSince, lastCall,
                   hkCause, offEnded, fileVars, procVars, cliVars, lock, offAt, stopped, extVars>>

\* CloseStream without stop_stream() and close(): the handle is dropped and the
\* stream goes on delivering
CloseStreamLeak ==
    /\ stream' = 0
    /\ UNCHANGED openStreams

\* _stop_recording, lines 157-160: stop and close the stream, if there is one
CloseStream ==
    /\ openStreams' = IF stream # 0 THEN openStreams \ {stream} ELSE openStreams
    /\ stream' = 0

\* stop(), lines 114-115 and _stop_recording(transcribe=False), lines 157-160
StopRec ==
    /\ mainPc = "stop_rec"
    /\ IF recording
       THEN /\ CloseStream
            /\ mainPc' = "stop_drain"
       ELSE /\ UNCHANGED <<stream, openStreams>>
            /\ mainPc' = "stop_term"
    /\ UNCHANGED <<mode, starts, calls, running, recording, startTime, engine, audio,
                   chunks, hotkey, hkRunning, hkIsRec, hkDev, hkPc, hkRec, toggles,
                   workers, captured, engineCalls, lastToggle, stopSince, lastCall,
                   hkCause, offEnded, fileVars, procVars, cliVars, lock, offAt, stopped, extVars>>

\* _stop_recording(transcribe=False), lines 162-168: the buffer is swapped for an
\* empty one and what it held is dropped
StopDrain ==
    /\ mainPc = "stop_drain"
    /\ chunks' = <<>>
    /\ mainPc' = "stop_term"
    /\ UNCHANGED <<mode, starts, calls, running, recording, startTime, engine, audio,
                   stream, openStreams, hotkey, hkRunning, hkIsRec, hkDev, hkPc, hkRec,
                   toggles, workers, captured, engineCalls, lastToggle, stopSince,
                   lastCall, hkCause, offEnded, fileVars, procVars, cliVars, lock, offAt, stopped, extVars>>

\* stop(), lines 117-119: PyAudio.terminate() closes every stream of the instance
StopTerm ==
    /\ mainPc = "stop_term"
    /\ IF audio
       THEN /\ openStreams' = {}
            /\ audio' = FALSE
       ELSE UNCHANGED <<openStreams, audio>>
    /\ mainPc' = "stop_unload"
    /\ UNCHANGED <<mode, starts, calls, running, recording, startTime, engine, stream,
                   chunks, hotkey, hkRunning, hkIsRec, hkDev, hkPc, hkRec, toggles,
                   workers, captured, engineCalls, lastToggle, stopSince, lastCall,
                   hkCause, offEnded, fileVars, procVars, cliVars, lock, offAt, stopped, extVars>>

\* stop(), lines 121-125: Transcriber.unload() (transcriber.py 170-177), then
\* _clear_status()
StopUnload ==
    /\ mainPc = "stop_unload"
    /\ engine' = IF engine = "none" THEN "none" ELSE "unloaded"
    /\ ClearStatus
    /\ mainPc' = "idle"
    /\ lastCall' = "stop_done"
    /\ UNCHANGED <<mode, starts, calls, running, recording, startTime, audio, stream,
                   openStreams, chunks, hotkey, hkRunning, hkIsRec, hkDev, hkPc, hkRec,
                   toggles, workers, captured, engineCalls, lastToggle, stopSince,
                   hkCause, offEnded, procVars, cliVars, lock, offAt, stopped, extVars>>

\* ------------------------------------------------------- the hotkey thread
\* _listen_loop, hotkey.py 121: read_loop() yields an F13 key-down event
HkRead(l) ==
    /\ hkPc[l] = "read"
    /\ hkDev[l]
    /\ toggles < MaxToggles
    /\ toggles' = toggles + 1
    /\ hkPc' = [hkPc EXCEPT ![l] = "got"]
    /\ UNCHANGED <<mode, mainPc, starts, calls, running, recording, startTime, engine,
                   audio, stream, openStreams, chunks, hotkey, hkRunning, hkIsRec, hkDev,
                   hkRec, workers, captured, engineCalls, lastToggle, stopSince,
                   lastCall, hkCause, offEnded, fileVars, procVars, cliVars, lock, offAt, stopped, extVars>>

\* _listen_loop, hotkey.py 122-133: leave the loop when stopped, else flip
\* _is_recording and call on_toggle; _on_toggle, realtime.py 128-130: set
\* _recording and _recording_start_time (time.time() is the event's number) and
\* write the status file
HkToggle(l) ==
    /\ hkPc[l] = "got"
    /\ IF ~hkRunning[l]
       THEN /\ hkPc' = [hkPc EXCEPT ![l] = "dead"]
            /\ hkCause' = [hkCause EXCEPT ![l] = "stopped"]
            /\ UNCHANGED <<hkIsRec, hkRec, recording, startTime, lastToggle, stopSince,
                           offAt, fileVars>>
       ELSE /\ hkIsRec' = [hkIsRec EXCEPT ![l] = ~hkIsRec[l]]
            /\ hkRec' = [hkRec EXCEPT ![l] = IF hkIsRec'[l] THEN toggles ELSE hkRec[l]]
            /\ recording' = hkIsRec'[l]
            /\ startTime' = IF hkIsRec'[l] THEN toggles ELSE 0
            /\ WriteStatus(recording', running, startTime')
            /\ lastToggle' = IF hkIsRec'[l] THEN "on" ELSE "off"
            /\ stopSince' = FALSE
            /\ offAt' = IF hkIsRec'[l] THEN offAt
                        ELSE [offAt EXCEPT ![hkRec[l]] = Len(captured[hkRec[l]])]
            /\ hkPc' = [hkPc EXCEPT ![l] = "notify"]
            /\ UNCHANGED hkCause
    /\ UNCHANGED <<mode, mainPc, starts, calls, running, engine, audio, stream,
                   openStreams, chunks, hotkey, hkRunning, hkDev, toggles, workers,
                   captured, engineCalls, lastCall, offEnded, procVars, cliVars, lock, stopped, extVars>>

\* _on_toggle, realtime.py 132-133: on_state_change. run_daemon's callback
\* (daemon.py 100-101) is DaemonManager.write_status (55-61), which lets the
\* error of a failed write out; it is an OSError, so _listen_loop's handler
\* (hotkey.py 135-137) catches it and the thread ends. run_realtime's prints.
HkNotify(l) ==
    /\ hkPc[l] = "notify"
    /\ \E ok \in BOOLEAN :
          /\ ok \/ mode = "daemon"
          /\ IF ok
             THEN /\ hkPc' = [hkPc EXCEPT ![l] = IF hkIsRec[l] THEN "reset" ELSE "close"]
                  /\ IF mode = "daemon"
                     THEN /\ statusExists' = TRUE
                          /\ statusFile' = DaemonStatus(hkIsRec[l])
                     ELSE UNCHANGED fileVars
                  /\ UNCHANGED <<hkCause, offEnded>>
             ELSE /\ hkPc' = [hkPc EXCEPT ![l] = "dead"]
                  /\ hkCause' = [hkCause EXCEPT ![l] = "status_error"]
                  /\ offEnded' = IF hkIsRec[l] THEN offEnded ELSE offEnded \cup {hkRec[l]}
                  /\ UNCHANGED fileVars
    /\ UNCHANGED <<mode, mainPc, starts, calls, running, recording, startTime, engine,
                   audio, stream, openStreams, chunks, hotkey, hkRunning, hkIsRec, hkDev,
                   hkRec, toggles, workers, captured, engineCalls, lastToggle, stopSince,
                   lastCall, procVars, cliVars, lock, offAt, stopped, extVars>>

\* _start_recording, realtime.py 143-144: a fresh buffer
HkReset(l) ==
    /\ hkPc[l] = "reset"
    /\ chunks' = <<>>
    /\ hkPc' = [hkPc EXCEPT ![l] = "open"]
    /\ UNCHANGED <<mode, mainPc, starts, calls, running, recording, startTime, engine,
                   audio, stream, openStreams, hotkey, hkRunning, hkIsRec, hkDev, hkRec,
                   toggles, workers, captured, engineCalls, lastToggle, stopSince,
                   lastCall, hkCause, offEnded, fileVars, procVars, cliVars, lock, offAt, stopped, extVars>>

\* _start_recording, realtime.py 146-154: self._audio.open(...) and start_stream().
\* With _audio None (stop() has run) the call is an AttributeError and the thread
\* dies; a device that cannot be opened is an OSError and ends the loop.
HkOpen(l) ==
    /\ hkPc[l] = "open"
    /\ \E ok \in BOOLEAN :
          IF audio /\ ok
          THEN /\ stream' = hkRec[l]
               /\ openStreams' = openStreams \cup {hkRec[l]}
               /\ hkPc' = [hkPc EXCEPT ![l] = "read"]
               /\ UNCHANGED hkCause
          ELSE /\ hkPc' = [hkPc EXCEPT ![l] = "dead"]
               /\ hkCause' = [hkCause EXCEPT ![l] = IF audio THEN "audio_error" ELSE "no_audio"]
               /\ UNCHANGED <<stream, openStreams>>
    /\ UNCHANGED <<mode, mainPc, starts, calls, running, recording, startTime, engine,
                   audio, chunks, hotkey, hkRunning, hkIsRec, hkDev, hkRec, toggles,
                   workers, captured, engineCalls, lastToggle, stopSince, lastCall,
                   offEnded, fileVars, procVars, cliVars, lock, offAt, stopped, extVars>>

\* _stop_recording(transcribe=True), realtime.py 157-160
HkClose(l) ==
    /\ hkPc[l] = "close"
    /\ CloseStream
    /\ hkPc' = [hkPc EXCEPT ![l] = "drain"]
    /\ UNCHANGED <<mode, mainPc, starts, calls, running, recording, startTime, engine,
                   audio, chunks, hotkey, hkRunning, hkIsRec, hkDev, hkRec, toggles,
                   workers, captured, engineCalls, lastToggle, stopSince, lastCall,
                   hkCause, offEnded, fileVars, procVars, cliVars, lock, offAt, stopped, extVars>>

\* Spawn with _transcribe_buffer called in place of the thread: the handler
\* returns when the transcription is over
SpawnInline(rec, buf) == [rec |-> rec, audio |-> buf, st |-> "done"]

\* _stop_recording, realtime.py 175-179: the thread that will run
\* _transcribe_buffer on the buffer is started, not waited for
Spawn(rec, buf) == [rec |-> rec, audio |-> buf, st |-> "spawned"]

\* _stop_recording(transcribe=True), realtime.py 162-179: swap the buffer for an
\* empty one; nothing more when it held no chunk, else concatenate and hand over
HkDrain(l) ==
    /\ hkPc[l] = "drain"
    /\ chunks' = <<>>
    /\ workers' = IF chunks = <<>> THEN workers
                  ELSE Append(workers, Spawn(hkRec[l], Concatenate(chunks)))
    /\ offEnded' = offEnded \cup {hkRec[l]}
    /\ hkPc' = [hkPc EXCEPT ![l] = "read"]
    /\ UNCHANGED <<mode, mainPc, starts, calls, running, recording, startTime, engine,
                   audio, stream, openStreams, hotkey, hkRunning, hkIsRec, hkDev, hkRec,
                   toggles, captured, engineCalls, lastToggle, stopSince, lastCall,
                   hkCause, fileVars, procVars, cliVars, lock, offAt, stopped, extVars>>

\* ------------------------------------------- the audio thread, the workers
\* _audio_callback, realtime.py 188-191: an open stream delivers its next chunk
AudioCallback(s) ==
    /\ s \in openStreams
    /\ Delivered(Recs) < MaxChunks
    /\ chunks' = Append(chunks, Chunk(s, Len(captured[s]) + 1))
    /\ captured' = [captured EXCEPT ![s] = Append(@, Chunk(s, Len(captured[s]) + 1))]
    /\ UNCHANGED <<mode, mainPc, starts, calls, running, recording, startTime, engine,
                   audio, stream, openStreams, hotkey, hkRunning, hkIsRec, hkDev, hkPc,
                   hkRec, toggles, workers, engineCalls, lastToggle, stopSince, lastCall,
                   hkCause, offEnded, fileVars, procVars, cliVars, lock, offAt, stopped, extVars>>

\* _transcribe_buffer, realtime.py 193-210: Transcriber.transcribe (transcriber.py
\* 103) goes through the model property (57-62), which loads an unloaded model
WorkerRun(i) ==
    /\ workers[i].st = "spawned"
    /\ engineCalls' = Append(engineCalls, [rec |-> workers[i].rec, audio |-> workers[i].audio])
    /\ engine' = IF engine = "unloaded" THEN "loaded" ELSE engine
    /\ workers' = [workers EXCEPT ![i].st = "done"]
    /\ UNCHANGED <<mode, mainPc, starts, calls, running, recording, startTime, audio,
                   stream, openStreams, chunks, hotkey, hkRunning, hkIsRec, hkDev, hkPc,
                   hkRec, toggles, captured, lastToggle, stopSince, lastCall, hkCause,
                   offEnded, fileVars, procVars, cliVars, lock, offAt, stopped, extVars>>

\* DaemonManager.cleanup, daemon.py 83-85: remove_pid and unlink of the status file
Cleanup ==
    /\ pidFile' = 0
    /\ statusExists' = FALSE
    /\ statusFile' = NoFile
    /\ statusText' = "json"

\* run_daemon's signal_handler, daemon.py 109-112: after transcriber.stop() has
\* returned, manager.cleanup()
SignalCleanup ==
    /\ mode = "daemon"
    /\ mainPc = "idle"
    /\ lastCall = "stop_done"
    /\ Cleanup
    /\ lastCall' = "cleanup_done"
    /\ UNCHANGED <<mode, mainPc, starts, calls, running, recording, startTime, engine,
                   audio, stream, openStreams, chunks, hotkey, hkRunning, hkIsRec, hkDev,
                   hkPc, hkRec, toggles, workers, captured, engineCalls, lastToggle,
                   stopSince, hkCause, offEnded, offAt, stopped, lock, dPc, cPc, cSaw,
                   cPid, cRet, sigterm, extVars>>

\* ------------------------------------------------------------ the session
Next ==
    \/ StartCall
    \/ StartLoad
    \/ StartHotkey
    \/ StartStatus
    \/ StopCall
    \/ StopHotkey
    \/ StopRec
    \/ StopDrain
    \/ StopTerm
    \/ StopUnload
    \/ SignalCleanup
    \/ \E l \in Listeners : HkRead(l)
    \/ \E l \in Listeners : HkToggle(l)
    \/ \E l \in Listeners : HkNotify(l)
    \/ \E l \in Listeners : HkReset(l)
    \/ \E l \in Listeners : HkOpen(l)
    \/ \E l \in Listeners : HkClose(l)
    \/ \E l \in Listeners : HkDrain(l)
    \/ \E s \in Recs : AudioCallback(s)
    \/ \E i \in 1..Len(workers) : WorkerRun(i)

Spec == Init /\ [][Next]_vars

\* ------------------------------------- the session, statement by statement
\* WorkSpec is the started session of Spec (run_realtime's, after start() has
\* returned) with the chunks mutex, the two statements of Transcriber.unload and
\* the statements of _transcribe_buffer as steps of their own.

\* `with self._chunks_lock:` entered by thread t, realtime.py 143, 162, 189
Acquire(t) ==
    /\ lock = Free
    /\ lock' = t

\* a with block that leaves the mutex held
ReleaseNever == lock' = lock

\* the end of the with block
Release == lock' = Free

\* Pa_StopStream and Pa_Terminate return once the stream's callback has returned
CallbackIdle == lock[1] # "acb"

\* _listen_loop, hotkey.py 121: read_loop() yields an F13 key-down event
Press(l) ==
    /\ hkPc[l] = "read"
    /\ hkDev[l]
    /\ toggles < MaxPresses
    /\ toggles' = toggles + 1
    /\ hkPc' = [hkPc EXCEPT ![l] = "got"]
    /\ UNCHANGED <<mode, mainPc, starts, calls, running, recording, startTime, engine,
                   audio, stream, openStreams, chunks, hotkey, hkRunning, hkIsRec, hkDev,
                   hkRec, workers, captured, engineCalls, lastToggle, stopSince,
                   lastCall, hkCause, offEnded, fileVars, procVars, cliVars, lock, offAt,
                   stopped, extVars>>

\* _start_recording, realtime.py 143: the handler takes the mutex
LkResetEnter(l) ==
    /\ hkPc[l] = "reset"
    /\ Acquire(<<"hk", l>>)
    /\ hkPc' = [hkPc EXCEPT ![l] = "reset_in"]
    /\ UNCHANGED <<mode, mainPc, starts, calls, running, recording, startTime, engine,
                   audio, stream, openStreams, chunks, hotkey, hkRunning, hkIsRec, hkDev,
                   hkRec, toggles, workers, captured, engineCalls, lastToggle, stopSince,
                   lastCall, hkCause, offEnded, fileVars, procVars, cliVars, offAt,
                   stopped, extVars>>

\* _start_recording, realtime.py 144: a fresh buffer, and the mutex is released
LkReset(l) ==
    /\ hkPc[l] = "reset_in"
    /\ chunks' = <<>>
    /\ Release
    /\ hkPc' = [hkPc EXCEPT ![l] = "open"]
    /\ UNCHANGED <<mode, mainPc, starts, calls, running, recording, startTime, engine,
                   audio, stream, openStreams, hotkey, hkRunning, hkIsRec, hkDev, hkRec,
                   toggles, workers, captured, engineCalls, lastToggle, stopSince,
                   lastCall, hkCause, offEnded, fileVars, procVars, cliVars, offAt,
                   stopped, extVars>>

\* _stop_recording, realtime.py 157-160: stop_stream() waits for the callback
LkClose(l) ==
    /\ CallbackIdle
    /\ HkClose(l)

\* _stop_recording, realtime.py 162: the handler takes the mutex
LkDrainEnter(l) ==
    /\ hkPc[l] = "drain"
    /\ Acquire(<<"hk", l>>)
    /\ hkPc' = [hkPc EXCEPT ![l] = "drain_in"]
    /\ UNCHANGED <<mode, mainPc, starts, calls, running, recording, startTime, engine,
                   audio, stream, openStreams, chunks, hotkey, hkRunning, hkIsRec, hkDev,
                   hkRec, toggles, workers, captured, engineCalls, lastToggle, stopSince,
                   lastCall, hkCause, offEnded, fileVars, procVars, cliVars, offAt,
                   stopped, extVars>>

\* what _transcribe_buffer keeps in its frame: the stripped text, how often it
\* has called the typer and on_transcription, what type_text returned, the
\* exception that ended it, and whether it has called the engine; late says that
\* stop() had been called when the worker was started
WorkerLocals ==
    [text |-> <<>>, typed |-> 0, notified |-> 0, ok |-> TRUE, err |-> "none",
     called |-> FALSE, late |-> stopped]

\* _stop_recording, realtime.py 163-179: swap the buffer and release the mutex;
\* nothing more when it held no chunk, else concatenate and start the worker
LkDrain(l) ==
    /\ hkPc[l] = "drain_in"
    /\ chunks' = <<>>
    /\ Release
    /\ workers' = IF chunks = <<>> THEN workers
                  ELSE Append(workers, Spawn(hkRec[l], Concatenate(chunks)) @@ WorkerLocals)
    /\ offEnded' = offEnded \cup {hkRec[l]}
    /\ hkPc' = [hkPc EXCEPT ![l] = "read"]
    /\ UNCHANGED <<mode, mainPc, starts, calls, running, recording, startTime, engine,
                   audio, stream, openStreams, hotkey, hkRunning, hkIsRec, hkDev, hkRec,
                   toggles, captured, engineCalls, lastToggle, stopSince, lastCall,
                   hkCause, fileVars, procVars, cliVars, offAt, stopped, extVars>>

\* _audio_callback, realtime.py 188-189: PortAudio's thread has a chunk of stream s
\* and takes the mutex
LkCallbackEnter(s) ==
    /\ s \in openStreams
    /\ Delivered(Recs) < MaxFrames
    /\ Acquire(<<"acb", s>>)
    /\ UNCHANGED <<mode, mainPc, starts, calls, running, recording, startTime, engine,
                   audio, stream, openStreams, chunks, hotkey, hkRunning, hkIsRec, hkDev,
                   hkPc, hkRec, toggles, workers, captured, engineCalls, lastToggle,
                   stopSince, lastCall, hkCause, offEnded, fileVars, procVars, cliVars,
                   offAt, stopped, extVars>>

\* _audio_callback, realtime.py 190-191: append the chunk, release, paContinue
LkCallback(s) ==
    /\ lock = <<"acb", s>>
    /\ chunks' = Append(chunks, Chunk(s, Len(captured[s]) + 1))
    /\ captured' = [captured EXCEPT ![s] = Append(@, Chunk(s, Len(captured[s]) + 1))]
    /\ Release
    /\ UNCHANGED <<mode, mainPc, starts, calls, running, recording, startTime, engine,
                   audio, stream, openStreams, hotkey, hkRunning, hkIsRec, hkDev, hkPc,
                   hkRec, toggles, workers, engineCalls, lastToggle, stopSince, lastCall,
                   hkCause, offEnded, fileVars, procVars, cliVars, offAt, stopped, extVars>>

\* stop(), realtime.py 114-115, and _stop_recording(transcribe=False), 157-160
LkStopRec ==
    /\ CallbackIdle
    /\ StopRec

\* _stop_recording(transcribe=False), realtime.py 162: the owner takes the mutex
LkStopDrainEnter ==
    /\ mainPc = "stop_drain"
    /\ Acquire(<<"main", 0>>)
    /\ mainPc' = "stop_drain_in"
    /\ UNCHANGED <<mode, starts, calls, running, recording, startTime, engine, audio,
                   stream, openStreams, chunks, hotkey, hkRunning, hkIsRec, hkDev, hkPc,
                   hkRec, toggles, workers, captured, engineCalls, lastToggle, stopSince,
                   lastCall, hkCause, offEnded, fileVars, procVars, cliVars, offAt,
                   stopped, extVars>>

\* _stop_recording(transcribe=False), realtime.py 163-168: swap, release, return
LkStopDrain ==
    /\ mainPc = "stop_drain_in"
    /\ chunks' = <<>>
    /\ Release
    /\ mainPc' = "stop_term"
    /\ UNCHANGED <<mode, starts, calls, running, recording, startTime, engine, audio,
                   stream, openStreams, hotkey, hkRunning, hkIsRec, hkDev, hkPc, hkRec,
                   toggles, workers, captured, engineCalls, lastToggle, stopSince,
                   lastCall, hkCause, offEnded, fileVars, procVars, cliVars, offAt,
                   stopped, extVars>>

\* stop(), realtime.py 117-119
LkStopTerm ==
    /\ CallbackIdle
    /\ StopTerm

\* stop(), realtime.py 121-122, and Transcriber.unload, transcriber.py 172-173:
\* `del self._model` of a loaded model; until the next statement the object has
\* no _model attribute
StopDel ==
    /\ mainPc = "stop_unload"
    /\ engine = "loaded"
    /\ engine' = "deleted"
    /\ mainPc' = "stop_unload_set"
    /\ UNCHANGED <<mode, starts, calls, running, recording, startTime, audio, stream,
                   openStreams, chunks, hotkey, hkRunning, hkIsRec, hkDev, hkPc, hkRec,
                   toggles, workers, captured, engineCalls, lastToggle, stopSince,
                   lastCall, hkCause, offEnded, fileVars, procVars, cliVars, lock, offAt,
                   stopped, extVars>>

\* Transcriber.unload, transcriber.py 171 (nothing to unload) or 174
\* (`self._model = None`), then stop(), realtime.py 124: _clear_status()
StopSet ==
    /\ \/ mainPc = "stop_unload" /\ engine # "loaded"
       \/ mainPc = "stop_unload_set"
    /\ engine' = "unloaded"
    /\ ClearStatus
    /\ mainPc' = "idle"
    /\ lastCall' = "stop_done"
    /\ UNCHANGED <<mode, starts, calls, running, recording, startTime, audio, stream,
                   openStreams, chunks, hotkey, hkRunning, hkIsRec, hkDev, hkPc, hkRec,
                   toggles, workers, captured, engineCalls, lastToggle, stopSince,
                   hkCause, offEnded, procVars, cliVars, lock, offAt, stopped, extVars>>

\* ------------------------------------------------------ _transcribe_buffer
\* what the engine returns as result["text"]: blank for silence, or words
EngineTexts == {<<" ">>, <<" ", "a", " ">>}

\* str.strip(): leading and trailing blanks removed
RECURSIVE LStrip(_)
LStrip(t) == IF t # <<>> /\ Head(t) = " " THEN LStrip(Tail(t)) ELSE t
RECURSIVE RStrip(_)
RStrip(t) == IF t # <<>> /\ t[Len(t)] = " " THEN RStrip(SubSeq(t, 1, Len(t) - 1)) ELSE t
Strip(t) == RStrip(LStrip(t))

\* an except clause that names AttributeError alone
ExceptAttributeError(e) == e = "AttributeError"

\* _transcribe_buffer, realtime.py 209: `except Exception` catches e
ExceptException(e) == e \in {"AttributeError", "RuntimeError"}

\* how the worker ends when e is raised inside the try block
Raised(i, e) ==
    [workers EXCEPT ![i].err = e,
                    ![i].st = IF ExceptException(e) THEN "done" ELSE "escaped"]

\* a worker that clears _recording when it ends
WorkerFrameClears ==
    /\ recording' = FALSE
    /\ UNCHANGED <<mode, mainPc, starts, calls, running, startTime, audio, stream,
                   openStreams, chunks, hotkey, hkRunning, hkIsRec, hkDev, hkPc, hkRec,
                   toggles, captured, lastToggle, stopSince, lastCall, hkCause,
                   offEnded, fileVars, procVars, cliVars, lock, offAt, stopped, extVars>>

\* _transcribe_buffer, realtime.py 193-210, assigns to no attribute of the session
\* and writes no file
WorkerFrame ==
    UNCHANGED <<mode, mainPc, starts, calls, running, recording, startTime, audio,
                stream, openStreams, chunks, hotkey, hkRunning, hkIsRec, hkDev, hkPc,
                hkRec, toggles, captured, lastToggle, stopSince, lastCall, hkCause,
                offEnded, fileVars, procVars, cliVars, lock, offAt, stopped, extVars>>

\* _transcribe_buffer, realtime.py 195, into Transcriber.transcribe (transcriber.py
\* 103) and its model property (57-62): without a _model attribute the read is
\* an AttributeError; an unloaded model is loaded; then the engine is called
WkBegin(i) ==
    /\ workers[i].st = "spawned"
    /\ IF engine = "deleted"
       THEN /\ workers' = Raised(i, "AttributeError")
            /\ UNCHANGED <<engine, engineCalls>>
       ELSE /\ workers' = [workers EXCEPT ![i].st = "transcribing", ![i].called = TRUE]
            /\ engine' = "loaded"
            /\ UNCHANGED engineCalls
    /\ WorkerFrame

\* _transcribe_buffer, realtime.py 195-198 and 206-207: the engine raises, or
\* returns a text, which is stripped; a blank one ends the worker
WkTranscribe(i) ==
    /\ workers[i].st = "transcribing"
    /\ \/ workers' = Raised(i, "RuntimeError")
       \/ \E out \in EngineTexts :
             workers' = [workers EXCEPT ![i].text = Strip(out),
                                        ![i].st = IF Strip(out) = <<>> THEN "done"
                                                  ELSE "type"]
    /\ WorkerFrame
    /\ UNCHANGED <<engine, engineCalls>>

\* on_transcription called only when type_text returned True
AfterTypeIfOk(ok) == IF ok THEN "notify" ELSE "done"

\* _transcribe_buffer, realtime.py 204-205: whatever type_text returned, the
\* worker goes on to on_transcription
AfterType(ok) == "notify"

\* _transcribe_buffer, realtime.py 201-202, and WaylandTyper.type_text, typing.py
\* 46-85: wtype types the text, or exits non-zero, or is killed by the timeout;
\* the last two are logged and False is returned, nothing is raised
WkType(i) ==
    /\ workers[i].st = "type"
    /\ \E res \in {"typed", "exit_status", "timeout"} :
          workers' = [workers EXCEPT ![i].typed = @ + 1,
                                     ![i].ok = (res = "typed"),
                                     ![i].st = AfterType(res = "typed")]
    /\ WorkerFrame
    /\ UNCHANGED <<engine, engineCalls>>

\* _transcribe_buffer, realtime.py 204-205: on_transcription(text), run_realtime's
\* print (realtime.py 237), and the worker ends
WkNotify(i) ==
    /\ workers[i].st = "notify"
    /\ workers' = [workers EXCEPT ![i].notified = @ + 1, ![i].st = "done"]
    /\ WorkerFrame
    /\ UNCHANGED <<engine, engineCalls>>

\* the session run_realtime has started: start() has returned, the listener reads
WorkInit ==
    /\ mode = "standalone"
    /\ mainPc = "idle"
    /\ starts = 1
    /\ calls = MaxCalls - 1
    /\ running = TRUE
    /\ recording = FALSE
    /\ startTime = 0
    /\ engine = "loaded"
    /\ audio = TRUE
    /\ stream = 0
    /\ openStreams = {}
    /\ chunks = <<>>
    /\ hotkey = 1
    /\ hkRunning = [l \in Listeners |-> l = 1]
    /\ hkIsRec = [l \in Listeners |-> FALSE]
    /\ hkDev = [l \in Listeners |-> l = 1]
    /\ hkPc = [l \in Listeners |-> IF l = 1 THEN "read" ELSE "none"]
    /\ hkRec = [l \in Listeners |-> 0]
    /\ toggles = 0
    /\ workers = <<>>
    /\ captured = [s \in Recs |-> <<>>]
    /\ engineCalls = <<>>
    /\ lastToggle = "none"
    /\ stopSince = FALSE
    /\ lastCall = "start_done"
    /\ hkCause = [l \in Listeners |-> "none"]
    /\ offEnded = {}
    /\ offAt = [k \in Recs |-> -1]
    /\ stopped = FALSE
    /\ lock = Free
    /\ statusText = "json"
    /\ IdleClient
    /\ EarIdle
    /\ GuiIdle
    /\ MergeIdle
    /\ statusExists = TRUE
    /\ statusFile = [recording |-> FALSE, running |-> TRUE, model |-> "turbo",
                     pid |-> 1, recording_start_time |-> 0]
    /\ pidFile = 0
    /\ dPc = [p \in Procs |-> "off"]

\* toggles, audio callbacks and workers, with no stop() call
WorkNext ==
    \/ \E l \in Listeners : Press(l)
    \/ \E l \in Listeners : HkToggle(l)
    \/ \E l \in Listeners : HkNotify(l)
    \/ \E l \in Listeners : LkResetEnter(l)
    \/ \E l \in Listeners : LkReset(l)
    \/ \E l \in Listeners : HkOpen(l)
    \/ \E l \in Listeners : LkClose(l)
    \/ \E l \in Listeners : LkDrainEnter(l)
    \/ \E l \in Listeners : LkDrain(l)
    \/ \E s \in Recs : LkCallbackEnter(s)
    \/ \E s \in Recs : LkCallback(s)
    \/ \E i \in 1..Len(workers) : WkBegin(i)
    \/ \E i \in 1..Len(workers) : WkTranscribe(i)
    \/ \E i \in 1..Len(workers) : WkType(i)
    \/ \E i \in 1..Len(workers) : WkNotify(i)

WorkSpec == WorkInit /\ [][WorkNext]_vars

\* the same, with the owner calling stop() at any moment
StopNext ==
    \/ StopCall
    \/ StopHotkey
    \/ LkStopRec
    \/ LkStopDrainEnter
    \/ LkStopDrain
    \/ LkStopTerm
    \/ StopDel
    \/ StopSet
    \/ \E l \in Listeners : HkRead(l)
    \/ \E l \in Listeners : HkToggle(l)
    \/ \E l \in Listeners : HkNotify(l)
    \/ \E l \in Listeners : LkResetEnter(l)
    \/ \E l \in Listeners : LkReset(l)
    \/ \E l \in Listeners : HkOpen(l)
    \/ \E l \in Listeners : LkClose(l)
    \/ \E l \in Listeners : LkDrainEnter(l)
    \/ \E l \in Listeners : LkDrain(l)
    \/ \E s \in Recs : LkCallbackEnter(s)
    \/ \E s \in Recs : LkCallback(s)
    \/ \E i \in 1..Len(workers) : WkBegin(i)
    \/ \E i \in 1..Len(workers) : WkTranscribe(i)
    \/ \E i \in 1..Len(workers) : WkType(i)
    \/ \E i \in 1..Len(workers) : WkNotify(i)

StopSpec == WorkInit /\ [][StopNext]_vars

\* ------------------------------------------- the listener, event by event
\* HotkeySpec is the listener of the started session with _listen_loop's
\* statements as steps of their own and the callback reduced to the call; the
\* owner calls HotkeyListener.stop().

\* what read_loop() yields: F13 pressed, released, held (autorepeat), and the
\* press of another key
EventKinds == {"f13_down", "f13_up", "f13_hold", "other_down"}

\* what the listener's actions leave alone
earFrame == <<mode, starts, calls, running, recording, startTime, engine, audio, stream,
              openStreams, chunks, hotkey, hkRec, toggles, workers, captured,
              engineCalls, lastToggle, stopSince, lastCall, hkCause, offEnded, offAt,
              stopped, lock, fileVars, procVars, cliVars, guiVars, mergeVars>>

\* _listen_loop, hotkey.py 121: read_loop() yields the next event
LsRead(l, kind) ==
    /\ hkPc[l] = "read"
    /\ hkDev[l]
    /\ Len(events) < MaxEvents
    /\ events' = Append(events, kind)
    /\ hkPc' = [hkPc EXCEPT ![l] = "check"]
    /\ UNCHANGED <<mainPc, hkRunning, hkIsRec, hkDev, delivered, earFrame>>

\* _listen_loop, hotkey.py 121 and 135-137: the read of a device that stop() has
\* closed raises OSError and the loop ends
LsReadError(l) ==
    /\ hkPc[l] = "read"
    /\ ~hkDev[l]
    /\ hkPc' = [hkPc EXCEPT ![l] = "dead"]
    /\ UNCHANGED <<mainPc, hkRunning, hkIsRec, hkDev, events, delivered, earFrame>>

\* _listen_loop, hotkey.py 122-123: `if not self._running: break`
LsCheck(l) ==
    /\ hkPc[l] = "check"
    /\ hkPc' = [hkPc EXCEPT ![l] = IF hkRunning[l] THEN "dispatch" ELSE "dead"]
    /\ UNCHANGED <<mainPc, hkRunning, hkIsRec, hkDev, events, delivered, earFrame>>

\* _listen_loop, hotkey.py 125-130: an EV_KEY event of F13 with keystate key_down
IsToggle(kind) == kind = "f13_down"

\* _listen_loop, hotkey.py 125-133: an event that is no F13 key-down is passed
\* over; for an F13 key-down _is_recording is flipped and on_toggle called with
\* it. The callback returns, or raises and ends the thread.
LsDispatch(l) ==
    /\ hkPc[l] = "dispatch"
    /\ IF IsToggle(events[Len(events)])
       THEN /\ hkIsRec' = [hkIsRec EXCEPT ![l] = ~hkIsRec[l]]
            /\ delivered' = Append(delivered, [val |-> ~hkIsRec[l],
                                               late |-> mainPc = "hs_done"])
            /\ \E ok \in BOOLEAN :
                  hkPc' = [hkPc EXCEPT ![l] = IF ok THEN "read" ELSE "dead"]
       ELSE /\ hkPc' = [hkPc EXCEPT ![l] = "read"]
            /\ UNCHANGED <<hkIsRec, delivered>>
    /\ UNCHANGED <<mainPc, hkRunning, hkDev, events, earFrame>>

\* HotkeyListener.stop(), hotkey.py 109: _running = False
LsStop(l) ==
    /\ mainPc = "idle"
    /\ hotkey = l
    /\ hkRunning' = [hkRunning EXCEPT ![l] = FALSE]
    /\ mainPc' = "hs_close"
    /\ UNCHANGED <<hkIsRec, hkDev, hkPc, events, delivered, earFrame>>

\* HotkeyListener.stop(), hotkey.py 110-112: the device is closed
LsStopClose(l) ==
    /\ mainPc = "hs_close"
    /\ hotkey = l
    /\ hkDev' = [hkDev EXCEPT ![l] = FALSE]
    /\ mainPc' = "hs_join"
    /\ UNCHANGED <<hkRunning, hkIsRec, hkPc, events, delivered, earFrame>>

\* HotkeyListener.stop(), hotkey.py 113-116: join(timeout=1.0) returns when the
\* thread has ended or when the second is over, and stop() returns
LsStopJoin(l) ==
    /\ mainPc = "hs_join"
    /\ hotkey = l
    /\ mainPc' = "hs_done"
    /\ UNCHANGED <<hkRunning, hkIsRec, hkDev, hkPc, events, delivered, earFrame>>

HotkeyNext ==
    \/ \E l \in Listeners, kind \in EventKinds : LsRead(l, kind)
    \/ \E l \in Listeners : LsReadError(l)
    \/ \E l \in Listeners : LsCheck(l)
    \/ \E l \in Listeners : LsDispatch(l)
    \/ \E l \in Listeners : LsStop(l)
    \/ \E l \in Listeners : LsStopClose(l)
    \/ \E l \in Listeners : LsStopJoin(l)

HotkeySpec == WorkInit /\ [][HotkeyNext]_vars

\* ------------------------------------------------- run_daemon, per process
\* Process p has PID p. The PID file holds 0 (absent), Empty (created or
\* truncated, nothing written yet), Garbage, a process's PID, StalePid or ForeignPid.
Empty == -1
StalePid == MaxProcs + 1
\* text that is not a number, and the PID of a live process of another user
Garbage == -2
ForeignPid == MaxProcs + 2

\* os.kill(pid, 0) succeeds: the process is between its start and its end
Alive(pid) ==
    pid \in Procs /\ dPc[pid] \notin {"off", "rejected", "exited", "failed", "crashed"}

\* run_daemon, daemon.py 91-93 and is_running, line 30: no PID file, not running
DExists(p) ==
    /\ dPc[p] = "off"
    /\ dPc' = [dPc EXCEPT ![p] = IF pidFile = 0 THEN "write_pid" ELSE "probe"]
    /\ UNCHANGED <<pidFile, sessVars, fileVars, cliVars, extVars>>

\* is_running, daemon.py 33-39: read the PID and probe it with signal 0. A PID
\* that does not parse or names no process removes the file and is "not
\* running"; a file deleted since line 30 is a FileNotFoundError, which is not
\* among the errors caught. run_daemon, 93-95: running means return 1.
DProbe(p) ==
    /\ dPc[p] = "probe"
    /\ IF pidFile = 0
       THEN /\ dPc' = [dPc EXCEPT ![p] = "crashed"]
            /\ UNCHANGED pidFile
       ELSE IF pidFile # Empty /\ Alive(pidFile)
       THEN /\ dPc' = [dPc EXCEPT ![p] = "rejected"]
            /\ UNCHANGED pidFile
       ELSE /\ dPc' = [dPc EXCEPT ![p] = "write_pid"]
            /\ pidFile' = 0
    /\ UNCHANGED <<sessVars, fileVars, cliVars, extVars>>

\* write_pid, daemon.py 49-50: write_text opens the file, truncating it
DOpenPid(p) ==
    /\ dPc[p] = "write_pid"
    /\ pidFile' = Empty
    /\ dPc' = [dPc EXCEPT ![p] = "write_pid2"]
    /\ UNCHANGED <<sessVars, fileVars, cliVars, extVars>>

\* write_pid, daemon.py 49-50: and writes the PID into the file it opened (after
\* an unlink by another process the write goes to the unlinked file)
DWritePid(p) ==
    /\ dPc[p] = "write_pid2"
    /\ pidFile' = IF pidFile = 0 THEN 0 ELSE p
    /\ dPc' = [dPc EXCEPT ![p] = "write_status"]
    /\ UNCHANGED <<sessVars, fileVars, cliVars, extVars>>

\* run_daemon, daemon.py 98: the first status record; a failed write raises out
\* of run_daemon before its try block
DWriteStatus(p) ==
    /\ dPc[p] = "write_status"
    /\ \E ok \in BOOLEAN :
          IF ok
          THEN /\ statusExists' = TRUE
               /\ statusFile' = DaemonStatus(FALSE)
               /\ statusText' = "json"
               /\ dPc' = [dPc EXCEPT ![p] = "serving"]
          ELSE /\ UNCHANGED <<fileVars, statusText>>
               /\ dPc' = [dPc EXCEPT ![p] = "crashed"]
    /\ UNCHANGED <<pidFile, sessVars, cPc, cSaw, cPid, cRet, sigterm, extVars>>

\* run_daemon, daemon.py 109-127: the session runs until SIGINT or SIGTERM, whose
\* handler stops it, cleans up and exits; a start() that raises cleans up too
DEnd(p) ==
    /\ dPc[p] = "serving"
    /\ Cleanup
    /\ dPc' = [dPc EXCEPT ![p] = "exited"]
    /\ UNCHANGED <<sessVars, cPc, cSaw, cPid, cRet, sigterm, extVars>>

\* run_daemon, daemon.py 117-127: transcriber.start() raises (no model, no audio,
\* no keyboard); the error is printed, cleanup() runs and run_daemon returns 1
DStartFails(p) ==
    /\ dPc[p] = "serving"
    /\ Cleanup
    /\ dPc' = [dPc EXCEPT ![p] = "failed"]
    /\ UNCHANGED <<sessVars, cPc, cSaw, cPid, cRet, sigterm, extVars>>

\* the process is gone and its slot runs run_daemon again
DAgain(p) ==
    /\ dPc[p] \in {"rejected", "exited", "failed", "crashed"}
    /\ dPc' = [dPc EXCEPT ![p] = "off"]
    /\ UNCHANGED <<pidFile, sessVars, fileVars, cliVars, extVars>>

\* --------------------------------------- the daemon's toggles, the clients
\* run_daemon's on_state_change, daemon.py 100-101, and write_status, 55-61:
\* write_text opens the status file, truncating it
DStatusOpen(p) ==
    /\ dPc[p] = "serving"
    /\ \E rec \in BOOLEAN : statusFile' = DaemonStatus(rec)
    /\ statusExists' = TRUE
    /\ statusText' = "empty"
    /\ UNCHANGED <<sessVars, procVars, cPc, cSaw, cPid, cRet, sigterm, extVars>>

\* write_status, daemon.py 61: the text reaches the file, in one piece or in two
DStatusFlush(p) ==
    /\ dPc[p] = "serving"
    /\ statusExists
    /\ \/ statusText = "empty" /\ statusText' \in {"torn", "json"}
       \/ statusText = "torn" /\ statusText' = "json"
    /\ UNCHANGED <<sessVars, procVars, fileVars, cPc, cSaw, cPid, cRet, sigterm, extVars>>

\* int(text.strip()) is a ValueError for an empty file and for text that is no number
Parses(content) == content \notin {Empty, Garbage}

\* os.kill(pid, sig), for signal 0 and for SIGTERM
Kill(pid) ==
    IF Alive(pid) THEN "ok"
    ELSE IF pid = ForeignPid THEN "PermissionError"
    ELSE "ProcessLookupError"

\* cmd_status, cli.py 118, and is_running, daemon.py 30-31
CIsRunning ==
    /\ cPc = "idle"
    /\ cSaw' = pidFile
    /\ cPid' = 0
    /\ sigterm' = {}
    /\ IF pidFile = 0
       THEN /\ cRet' = [op |-> "is_running", ret |-> "false", saw |-> "pid"]
            /\ cPc' = "idle"
       ELSE /\ cRet' = [op |-> "is_running", ret |-> "pending", saw |-> "pid"]
            /\ cPc' = "ir_read"
    /\ UNCHANGED <<sessVars, fileVars, procVars, statusText, extVars>>

\* is_running, daemon.py 33-39: read_text of a file deleted since line 30 raises
\* FileNotFoundError, which the except clause does not name
CIsRunningRead ==
    /\ cPc = "ir_read"
    /\ cPc' = "idle"
    /\ IF pidFile = 0
       THEN /\ cRet' = [cRet EXCEPT !.ret = "raised"]
            /\ UNCHANGED pidFile
       ELSE IF Parses(pidFile) /\ Kill(pidFile) = "ok"
       THEN /\ cRet' = [cRet EXCEPT !.ret = "true"]
            /\ UNCHANGED pidFile
       ELSE /\ cRet' = [cRet EXCEPT !.ret = "false"]
            /\ pidFile' = 0
    /\ UNCHANGED <<sessVars, fileVars, dPc, statusText, cSaw, cPid, sigterm, extVars>>

\* cmd_stop, cli.py 138, stop_daemon, daemon.py 72-74, and get_pid, 42-43
CStopDaemon ==
    /\ cPc = "idle"
    /\ cSaw' = pidFile
    /\ cPid' = 0
    /\ sigterm' = {}
    /\ IF pidFile = 0
       THEN /\ cRet' = [op |-> "stop_daemon", ret |-> "false", saw |-> "pid"]
            /\ cPc' = "idle"
       ELSE /\ cRet' = [op |-> "stop_daemon", ret |-> "pending", saw |-> "pid"]
            /\ cPc' = "gp_read"
    /\ UNCHANGED <<sessVars, fileVars, procVars, statusText, extVars>>

\* get_pid, daemon.py 44-47, and stop_daemon, 73-74: only ValueError is caught
CGetPid ==
    /\ cPc = "gp_read"
    /\ IF pidFile = 0
       THEN /\ cRet' = [cRet EXCEPT !.ret = "raised"]
            /\ cPc' = "idle"
            /\ UNCHANGED cPid
       ELSE IF ~Parses(pidFile)
       THEN /\ cRet' = [cRet EXCEPT !.ret = "false"]
            /\ cPc' = "idle"
            /\ UNCHANGED cPid
       ELSE /\ cPid' = pidFile
            /\ cPc' = "sd_kill"
            /\ UNCHANGED cRet
    /\ UNCHANGED <<sessVars, fileVars, procVars, statusText, cSaw, sigterm, extVars>>

\* stop_daemon, daemon.py 76-81: SIGTERM; only ProcessLookupError is caught
CKill ==
    /\ cPc = "sd_kill"
    /\ cPc' = "idle"
    /\ IF Kill(cPid) = "ok"
       THEN /\ sigterm' = sigterm \cup {cPid}
            /\ cRet' = [cRet EXCEPT !.ret = "true"]
            /\ UNCHANGED pidFile
       ELSE IF Kill(cPid) = "ProcessLookupError"
       THEN /\ pidFile' = 0
            /\ cRet' = [cRet EXCEPT !.ret = "false"]
            /\ UNCHANGED sigterm
       ELSE /\ cRet' = [cRet EXCEPT !.ret = "raised"]
            /\ UNCHANGED <<pidFile, sigterm>>
    /\ UNCHANGED <<sessVars, fileVars, dPc, statusText, cSaw, cPid, extVars>>

\* the two readers of the status file and what each returns for no record
Readers == {"read_status", "waybar"}
NoRecord(reader) == IF reader = "read_status" THEN "default" ELSE "None"

\* read_status, daemon.py 64-65, and stt-status.py 51-52: no file, no record
CReadStatus(reader) ==
    /\ cPc = "idle"
    /\ IF ~statusExists
       THEN /\ cRet' = [op |-> reader, ret |-> NoRecord(reader), saw |-> "missing"]
            /\ cPc' = "idle"
       ELSE /\ cRet' = [op |-> reader, ret |-> "pending", saw |-> "none"]
            /\ cPc' = "rs_read"
    /\ UNCHANGED <<sessVars, fileVars, procVars, statusText, cSaw, cPid, sigterm, extVars>>

\* json.loads(path.read_text()) on the file as it is now
ReadText ==
    IF ~statusExists THEN "FileNotFoundError"
    ELSE IF statusText = "unreadable" THEN "PermissionError"
    ELSE IF statusText = "json" THEN "record"
    ELSE "JSONDecodeError"

\* an except clause that names json.JSONDecodeError alone
ReadCatchesJson(e) == e = "JSONDecodeError"

\* `except (json.JSONDecodeError, IOError)`, daemon.py 68 and stt-status.py 55:
\* IOError is OSError, the base of FileNotFoundError and PermissionError
ReadCatches(e) == e \in {"JSONDecodeError", "FileNotFoundError", "PermissionError"}

\* read_status, daemon.py 66-69, and stt-status.py 53-56
CReadStatusRead ==
    /\ cPc = "rs_read"
    /\ cPc' = "idle"
    /\ cRet' = [cRet EXCEPT
                  !.saw = IF ~statusExists THEN "deleted" ELSE statusText,
                  !.ret = IF ReadText = "record" THEN "record"
                          ELSE IF ReadCatches(ReadText) THEN NoRecord(cRet.op)
                          ELSE "raised"]
    /\ UNCHANGED <<sessVars, fileVars, procVars, statusText, cSaw, cPid, sigterm, extVars>>

DaemonInit ==
    /\ mode = "daemon"
    /\ mainPc = "idle"
    /\ starts = 0
    /\ calls = 0
    /\ running = FALSE
    /\ recording = FALSE
    /\ startTime = 0
    /\ engine = "none"
    /\ audio = FALSE
    /\ stream = 0
    /\ openStreams = {}
    /\ chunks = <<>>
    /\ hotkey = 0
    /\ hkRunning = [l \in Listeners |-> FALSE]
    /\ hkIsRec = [l \in Listeners |-> FALSE]
    /\ hkDev = [l \in Listeners |-> FALSE]
    /\ hkPc = [l \in Listeners |-> "none"]
    /\ hkRec = [l \in Listeners |-> 0]
    /\ toggles = 0
    /\ workers = <<>>
    /\ captured = [s \in Recs |-> <<>>]
    /\ engineCalls = <<>>
    /\ lastToggle = "none"
    /\ stopSince = FALSE
    /\ lastCall = "none"
    /\ hkCause = [l \in Listeners |-> "none"]
    /\ offEnded = {}
    /\ offAt = [k \in Recs |-> -1]
    /\ stopped = FALSE
    /\ lock = Free
    /\ IdleClient
    /\ EarIdle
    /\ GuiIdle
    /\ MergeIdle
    \* what an earlier run or another program left in the state directory
    /\ statusExists \in BOOLEAN
    /\ statusText \in IF statusExists THEN {"garbage", "unreadable"} ELSE {"json"}
    /\ statusFile = NoFile
    /\ pidFile \in {0, StalePid, Garbage, ForeignPid}
    /\ dPc = [p \in Procs |-> "off"]

DaemonNext ==
    \/ \E p \in Procs : DExists(p)
    \/ \E p \in Procs : DProbe(p)
    \/ \E p \in Procs : DOpenPid(p)
    \/ \E p \in Procs : DWritePid(p)
    \/ \E p \in Procs : DWriteStatus(p)
    \/ \E p \in Procs : DEnd(p)
    \/ \E p \in Procs : DAgain(p)

DaemonSpec == DaemonInit /\ [][DaemonNext]_vars

\* the daemons, and a client that calls is_running() and stop_daemon()
PidNext ==
    \/ \E p \in Procs : DExists(p)
    \/ \E p \in Procs : DProbe(p)
    \/ \E p \in Procs : DOpenPid(p)
    \/ \E p \in Procs : DWritePid(p)
    \/ \E p \in Procs : DWriteStatus(p)
    \/ \E p \in Procs : DEnd(p)
    \/ \E p \in Procs : DAgain(p)
    \/ CIsRunning
    \/ CIsRunningRead
    \/ CStopDaemon
    \/ CGetPid
    \/ CKill

PidSpec == DaemonInit /\ [][PidNext]_vars

\* the daemons, their toggles, and a client that reads the status file
StatusNext ==
    \/ \E p \in Procs : DExists(p)
    \/ \E p \in Procs : DProbe(p)
    \/ \E p \in Procs : DOpenPid(p)
    \/ \E p \in Procs : DWritePid(p)
    \/ \E p \in Procs : DWriteStatus(p)
    \/ \E p \in Procs : DEnd(p)
    \/ \E p \in Procs : DAgain(p)
    \/ \E p \in Procs : DStatusOpen(p)
    \/ \E p \in Procs : DStatusFlush(p)
    \/ \E reader \in Readers : CReadStatus(reader)
    \/ CReadStatusRead

StatusSpec == DaemonInit /\ [][StatusNext]_vars

\* ------------------------------------------ the GUI's TranscriptionWorker
\* GuiSpec is one run of TranscriptionWorker (main_window.py 24-64) around
\* MeetingTranscriber.transcribe (meeting.py 59-138), and the GUI thread's
\* cancel(). The worker's position is <<"check", k>> and <<"emit", k>> inside the
\* k-th progress callback, <<"work", k>> in the work that follows it.

\* the progress callbacks of transcribe: meeting.py 73, 76, 86, 94, 102, 127
LastStep == 6
\* the callback after which the transcript is generated and saved, meeting.py 102-124
SaveStep == 5

\* the work after callback k that may raise: the engine (78-83), the
\* diarization (88-91), the write of the transcript (119-124)
Fallible(k) == k \in {2, 3, SaveStep}

guiFrame == <<sessVars, fileVars, procVars, cliVars, earVars, mergeVars>>

\* MainWindow._start_transcription, main_window.py 353-364: the progress view is
\* shown, a worker is made, its signals connected, and it is started
GStart ==
    /\ gPc = <<"none", 0>>
    /\ gWin.view = "picker"
    /\ gPc' = <<"begin", 0>>
    /\ gWin' = [gWin EXCEPT !.view = "progress", !.worker = TRUE]
    /\ UNCHANGED <<gCancelled, gLog, gSaved, guiFrame>>

\* run(), main_window.py 40-53, and transcribe, meeting.py 66-68: a missing audio
\* file is a FileNotFoundError
GwBegin ==
    /\ gPc = <<"begin", 0>>
    /\ \E found \in BOOLEAN :
          gPc' = IF found THEN <<"check", 1>> ELSE <<"error", 0>>
    /\ UNCHANGED <<gCancelled, gLog, gSaved, gWin, guiFrame>>

\* on_progress, main_window.py 46-47: a set flag raises InterruptedError, which
\* leaves transcribe and is caught at 58-59
GwCheck(k) ==
    /\ gPc = <<"check", k>>
    /\ gPc' = IF gCancelled THEN <<"ended", 0>> ELSE <<"emit", k>>
    /\ UNCHANGED <<gCancelled, gLog, gSaved, gWin, guiFrame>>

\* on_progress, main_window.py 48: progress.emit; then the callback returns into
\* transcribe, and after the last one transcribe returns its result
GwEmit(k) ==
    /\ gPc = <<"emit", k>>
    /\ gLog' = Append(gLog, [sig |-> "progress", step |-> k, late |-> gCancelled])
    /\ gPc' = IF k = 1 THEN <<"check", 2>>
              ELSE IF k = LastStep THEN <<"fcheck", 0>>
              ELSE <<"work", k>>
    /\ UNCHANGED <<gCancelled, gSaved, gWin, guiFrame>>

\* transcribe, meeting.py 78-124: the work between two callbacks; the work after
\* callback SaveStep ends with save_transcript (markdown.py 63-70)
GwWork(k) ==
    /\ gPc = <<"work", k>>
    /\ \E ok \in BOOLEAN :
          /\ ok \/ Fallible(k)
          /\ gPc' = IF ok THEN <<"check", k + 1>> ELSE <<"error", 0>>
          /\ gSaved' = (gSaved \/ (ok /\ k = SaveStep))
    /\ UNCHANGED <<gCancelled, gLog, gWin, guiFrame>>

\* run(), main_window.py 55: `if not self._is_cancelled`
GwFinishCheck ==
    /\ gPc = <<"fcheck", 0>>
    /\ gPc' = IF gCancelled THEN <<"ended", 0>> ELSE <<"femit", 0>>
    /\ UNCHANGED <<gCancelled, gLog, gSaved, gWin, guiFrame>>

\* run(), main_window.py 56: finished.emit(result)
GwFinishEmit ==
    /\ gPc = <<"femit", 0>>
    /\ gLog' = Append(gLog, [sig |-> "finished", step |-> 0, late |-> gCancelled])
    /\ gPc' = <<"ended", 0>>
    /\ UNCHANGED <<gCancelled, gSaved, gWin, guiFrame>>

\* run(), main_window.py 60-61: error.emit(str(e))
GwError ==
    /\ gPc = <<"error", 0>>
    /\ gLog' = Append(gLog, [sig |-> "error", step |-> 0, late |-> gCancelled])
    /\ gPc' = <<"ended", 0>>
    /\ UNCHANGED <<gCancelled, gSaved, gWin, guiFrame>>

\* MainWindow._cancel_transcription, main_window.py 366-369, and cancel(), 63-64:
\* the Cancel button of the progress view sets the flag and the GUI thread
\* waits for the worker thread to end
GCancel ==
    /\ gWin.view = "progress"
    /\ gWin.worker
    /\ ~gWin.waiting
    /\ gCancelled' = TRUE
    /\ gWin' = [gWin EXCEPT !.waiting = TRUE]
    /\ UNCHANGED <<gPc, gLog, gSaved, guiFrame>>

\* MainWindow._cancel_transcription, main_window.py 369-372: wait() returns, the
\* worker is dropped and the picker shown
GCancelDone ==
    /\ gWin.waiting
    /\ gPc = <<"ended", 0>>
    /\ gWin' = [gWin EXCEPT !.waiting = FALSE, !.worker = FALSE, !.view = "picker"]
    /\ UNCHANGED <<gPc, gCancelled, gLog, gSaved, guiFrame>>

\* the GUI thread's event loop handles the next queued signal: update_progress,
\* _on_finished (main_window.py 374-378) or _on_error (380-384)
GDeliver ==
    /\ ~gWin.waiting
    /\ gWin.seen < Len(gLog)
    /\ LET sig == gLog[gWin.seen + 1].sig
       IN  gWin' = [gWin EXCEPT
                      !.seen = @ + 1,
                      !.view = IF sig = "finished" THEN "result"
                               ELSE IF sig = "error" THEN "picker" ELSE @,
                      !.worker = IF sig = "progress" THEN @ ELSE FALSE]
    /\ UNCHANGED <<gPc, gCancelled, gLog, gSaved, guiFrame>>

GuiNext ==
    \/ GStart
    \/ GwBegin
    \/ \E k \in 1..LastStep : GwCheck(k)
    \/ \E k \in 1..LastStep : GwEmit(k)
    \/ \E k \in 2..SaveStep : GwWork(k)
    \/ GwFinishCheck
    \/ GwFinishEmit
    \/ GwError
    \/ GCancel
    \/ GCancelDone
    \/ GDeliver

\* the GUI process has no capture session
GuiInit == Init /\ mode = "standalone"

GuiSpec == GuiInit /\ [][GuiNext]_vars

\* ------------------------------------ Diarizer.merge_with_transcription
\* max and min of two numbers
Max(a, b) == IF a >= b THEN a ELSE b
Min(a, b) == IF a <= b THEN a ELSE b

\* diarization.py 131-133: the time a transcription segment and a speaker turn
\* share, 0 when they share none
Overlap(t, d) == Max(0, Min(t.end, d.end) - Max(t.start, d.start))

\* a comparison that lets a later turn of equal overlap win
ExceedsOrTies(overlap, best) == overlap >= best

\* diarization.py 135: `if overlap > best_overlap`
Exceeds(overlap, best) == overlap > best

\* diarization.py 130-137: the loop over the speaker turns still to visit, with
\* best_speaker and best_overlap as they stand
RECURSIVE BestSpeaker(_, _, _, _)
BestSpeaker(t, segs, speaker, best) ==
    IF segs = <<>> THEN speaker
    ELSE IF Exceeds(Overlap(t, Head(segs)), best)
         THEN BestSpeaker(t, Tail(segs), Head(segs).speaker, Overlap(t, Head(segs)))
         ELSE BestSpeaker(t, Tail(segs), speaker, best)

\* diarization.py 122-144: the SpeakerSegment made for one transcription segment
MergeOne(segs, t) ==
    [speaker |-> BestSpeaker(t, segs, "Unknown", 0),
     start |-> t.start, end |-> t.end, text |-> Strip(t.text)]

\* diarization.py 120-146: merge_with_transcription
Merge(segs, trans) == [i \in 1..Len(trans) |-> MergeOne(segs, trans[i])]

\* lists of at most MaxSegs elements of S
Lists(S) == UNION {[1..n -> S] : n \in 0..MaxSegs}

\* a list in the order of its start times, as diarize() sorts its turns
\* (diarization.py 110) and as the engine yields its segments
ByStart(list) == \A i \in 1..Len(list) - 1 : list[i].start <= list[i + 1].start

\* the speaker turns diarize() returns: a speaker and a time span that is not empty
Turns ==
    {d \in [speaker : {"A", "B"}, start : 0..MaxTime, end : 0..MaxTime] : d.start < d.end}

\* the engine's segments: a time span and a text with blanks around it
Lines ==
    {t \in [start : 0..MaxTime, end : 0..MaxTime, text : {<<" ", "a", " ">>}] :
        t.start <= t.end}

\* no capture session, no daemon, no client
NoSession ==
    /\ mode = "standalone"
    /\ mainPc = "idle"
    /\ starts = 0
    /\ calls = 0
    /\ running = FALSE
    /\ recording = FALSE
    /\ startTime = 0
    /\ engine = "none"
    /\ audio = FALSE
    /\ stream = 0
    /\ openStreams = {}
    /\ chunks = <<>>
    /\ hotkey = 0
    /\ hkRunning = [l \in Listeners |-> FALSE]
    /\ hkIsRec = [l \in Listeners |-> FALSE]
    /\ hkDev = [l \in Listeners |-> FALSE]
    /\ hkPc = [l \in Listeners |-> "none"]
    /\ hkRec = [l \in Listeners |-> 0]
    /\ toggles = 0
    /\ workers = <<>>
    /\ captured = [s \in Recs |-> <<>>]
    /\ engineCalls = <<>>
    /\ lastToggle = "none"
    /\ stopSince = FALSE
    /\ lastCall = "none"
    /\ hkCause = [l \in Listeners |-> "none"]
    /\ offEnded = {}
    /\ offAt = [k \in Recs |-> -1]
    /\ stopped = FALSE
    /\ lock = Free
    /\ statusText = "json"
    /\ IdleClient
    /\ statusExists = FALSE
    /\ statusFile = NoFile
    /\ pidFile = 0
    /\ dPc = [p \in Procs |-> "off"]

\* MeetingTranscriber.transcribe, meeting.py 78-91: the two lists as the engine
\* and the diarizer returned them
MergeInit ==
    /\ NoSession
    /\ EarIdle
    /\ GuiIdle
    /\ mSegs \in {l \in Lists(Turns) : ByStart(l)}
    /\ mTrans \in {l \in Lists(Lines) : ByStart(l)}
    /\ mOut = <<>>

\* MeetingTranscriber.transcribe, meeting.py 96-99: the call
MergeCall ==
    /\ mOut = <<>>
    /\ mOut' = <<Merge(mSegs, mTrans)>>
    /\ UNCHANGED <<mSegs, mTrans, sessVars, fileVars, procVars, cliVars, earVars, guiVars>>

MergeNext == MergeCall

MergeSpec == MergeInit /\ [][MergeNext]_vars

\* ---------------------------------------------------- the commands' status
\* cmd_status, cli.py 118-131: 1 when is_running() returned False, 0 when True;
\* an exception that leaves main() ends the interpreter with status 1
CmdStatus(ret) == IF ret = "true" THEN 0 ELSE 1

\* a stop command that reports success whenever stop_daemon() returned
CmdStopReturned(ret) == IF ret \in {"true", "false"} THEN 0 ELSE 1

\* cmd_stop, cli.py 138-143: 0 when stop_daemon() returned True, 1 when False;
\* an exception that leaves main() ends the interpreter with status 1
CmdStop(ret) == IF ret = "true" THEN 0 ELSE 1

\* cmd_daemon, cli.py 97-102, and run_daemon: sys.exit(0) in the signal handler
\* (daemon.py 112), return 1 at 95 and 123, status 1 for an uncaught exception
CmdDaemon(pc) == IF pc = "exited" THEN 0 ELSE 1

\* the daemons, with a start() that may fail, and the client of PidSpec
CmdNext ==
    \/ \E p \in Procs : DExists(p)
    \/ \E p \in Procs : DProbe(p)
    \/ \E p \in Procs : DOpenPid(p)
    \/ \E p \in Procs : DWritePid(p)
    \/ \E p \in Procs : DWriteStatus(p)
    \/ \E p \in Procs : DEnd(p)
    \/ \E p \in Procs : DStartFails(p)
    \/ \E p \in Procs : DAgain(p)
    \/ CIsRunning
    \/ CIsRunningRead
    \/ CStopDaemon
    \/ CGetPid
    \/ CKill

CmdSpec == DaemonInit /\ [][CmdNext]_vars

\* ----------------------------------------------------------------- claims
\* no owner call and no toggle handler is in progress
Quiescent ==
    /\ mainPc = "idle"
    /\ \A l \in Listeners : hkPc[l] \in {"none", "read", "dead"}

\* the workers spawned for recording k, and the engine calls made for it
WorkersOf(k) == {i \in 1..Len(workers) : workers[i].rec = k}
CallsOf(k) == {i \in 1..Len(engineCalls) : engineCalls[i].rec = k}
InFlight == {i \in 1..Len(workers) : workers[i].st = "spawned"}

\* C1: whenever no call and no handler is in progress (and so in every reachable
\* state), recording implies running
C1_RecordingImpliesRunning == Quiescent => (recording => running)

\* C2: recording is true exactly when the most recent toggle delivered true and
\* stop() has not been called since
C2_RecordingIffLastToggle ==
    Quiescent => (recording <=> (lastToggle = "on" /\ ~stopSince))

\* C3: a failed write of the status file never ends the hotkey listen loop, and
\* the toggle it came with still opens or closes the audio stream
C3_StatusFailureContained == \A l \in Listeners : hkCause[l] # "status_error"

\* C4: in the status file as just written, recording is true exactly when
\* recording_start_time is present and not null
C4_StatusRecordingIffStartTime ==
    statusExists =>
        (StatusGet("recording", FALSE) <=> StatusGet("recording_start_time", 0) # 0)

\* C5: at most one process at a time is past run_daemon's is_running() guard,
\* with the PID file written and a capture session of its own
C5_OneDaemon == Cardinality({p \in Procs : dPc[p] = "serving"}) <= 1

\* C6: after a start() that raised, the session is idle: not running and with no
\* listener registered
C6_FailedStartLeavesIdle ==
    (mainPc = "idle" /\ lastCall = "start_raised") =>
        /\ ~running
        /\ \A l \in Listeners : ~hkRunning[l]

\* C7: once stop() has returned, no audio stream is open and the audio buffer
\* is empty (stop() itself starts no worker: StopDrain drops what it drains)
C7_StopLeavesNothing ==
    (mainPc = "idle" /\ lastCall = "stop_done") =>
        /\ openStreams = {}
        /\ chunks = <<>>

\* C8: once the toggle-off of a recording has been handled, the engine is called
\* for it at most once and only with the concatenation of all the chunks the
\* recording captured, in order; a recording that had captured a chunk when its
\* toggle-off came has exactly one worker, which holds that concatenation and
\* makes the call; a recording that captured nothing has no worker and no call
C8_OneCallWithAllChunks ==
    \A k \in offEnded :
        /\ Cardinality(CallsOf(k)) <= 1
        /\ \A i \in CallsOf(k) : engineCalls[i].audio = Concatenate(captured[k])
        /\ offAt[k] > 0 =>
              /\ Cardinality(WorkersOf(k)) = 1
              /\ \A i \in WorkersOf(k) :
                    /\ workers[i].audio = Concatenate(captured[k])
                    /\ workers[i].st = "done" => Cardinality(CallsOf(k)) = 1
        /\ captured[k] = <<>> => (WorkersOf(k) = {} /\ CallsOf(k) = {})

\* the stream (the recording) a sample was captured by
StreamOf(sample) == sample[1]

\* C9: while toggles, audio callbacks and workers interleave (stop() has not been
\* called), the audio a worker holds for recording k is made of samples captured
\* during recording k only, and the buffer holds every chunk the recording now
\* being captured has delivered, in order, whatever workers are in flight
C9_RecordingsIsolated ==
    ~stopped =>
        /\ \A i \in 1..Len(workers) :
              \A j \in 1..Len(workers[i].audio) :
                 StreamOf(workers[i].audio[j]) = workers[i].rec
        /\ \A s \in openStreams : s = stream => chunks = captured[s]

\* C9 witness: the first recording's worker is still in flight, holding its
\* chunk, while the buffer holds a chunk of the second recording
C9_Witness ==
    /\ ~stopped
    /\ \E i \in InFlight : workers[i].rec < stream /\ workers[i].audio # <<>>
    /\ stream \in openStreams
    /\ chunks # <<>>

\* listener l's toggle-off handler returns in this step, having started a worker
OffReturns(l) ==
    /\ hkPc[l] = "drain"
    /\ hkPc'[l] = "read"
    /\ Len(workers') = Len(workers) + 1

\* listener l handles a toggle event in this step
Toggles(l) == hkPc[l] = "got" /\ hkPc'[l] = "notify"

\* C10: the toggle-off handler returns with the transcription it started still
\* to run, and a toggle event that arrives while a worker is in flight is
\* handled and sets the recording state to what it delivers
C10_ToggleNeverWaits ==
    /\ [][\A l \in Listeners :
            OffReturns(l) => workers'[Len(workers')].st = "spawned"]_vars
    /\ [][\A l \in Listeners :
            (Toggles(l) /\ InFlight # {}) => recording' = hkIsRec'[l]]_vars
    /\ [](\A l \in Listeners :
            (hkPc[l] = "got" /\ InFlight # {}) => ENABLED HkToggle(l))

\* C10 witness: recording is on again, by a later toggle, while the worker of an
\* earlier recording is still in flight
C10_Witness ==
    /\ recording
    /\ \E l \in Listeners :
          /\ hkPc[l] \in {"notify", "reset", "open", "read"}
          /\ hkIsRec[l]
          /\ \E i \in InFlight : workers[i].rec < hkRec[l]

\* the thread that holds the mutex is inside one of the three with blocks: the
\* handler between taking it and resetting or swapping the buffer, the owner
\* between taking it and swapping the buffer, or the audio callback
HolderInside ==
    /\ lock[1] \in {"free", "hk", "main", "acb"}
    /\ lock[1] = "hk" => hkPc[lock[2]] \in {"reset_in", "drain_in"}
    /\ lock[1] = "main" => mainPc = "stop_drain_in"

\* C11: the audio buffer changes (append, reset, drain) only in a step made with
\* the chunks mutex held, and the mutex is held only inside the append, reset and
\* drain blocks: never by a worker (transcription, text injection) and never by
\* a thread that is opening or closing the audio stream
C11_ChunksUnderLock ==
    /\ [][chunks' # chunks => lock # Free]_vars
    /\ []HolderInside

\* C11 witness: the audio callback holds the mutex, about to append a chunk of a
\* new recording, while the worker of the recording before is transcribing
C11_Witness ==
    /\ lock[1] = "acb"
    /\ chunks = <<>>
    /\ \E i \in 1..Len(workers) : workers[i].st = "transcribing"

\* worker record w has met a transient error: the engine or the read of the model
\* raised, or type_text returned False
Failed(w) == w.err # "none" \/ (w.typed > 0 /\ ~w.ok)

\* C12: no exception leaves a worker; the step in which a worker meets a
\* transient error leaves running and recording as they are; and with a failed
\* worker behind it the listener still handles the next toggle event and a
\* spawned worker still starts
C12_TransientErrorContained ==
    /\ [](\A i \in 1..Len(workers) : workers[i].st # "escaped")
    /\ [][\A i \in 1..Len(workers) :
            (~Failed(workers[i]) /\ Failed(workers'[i])) =>
                (running' /\ UNCHANGED <<running, recording, stream, chunks>>)]_vars
    /\ []((\E i \in 1..Len(workers) : Failed(workers[i])) =>
            /\ \A l \in Listeners : hkPc[l] = "got" => ENABLED HkToggle(l)
            /\ \A j \in InFlight : ENABLED WkBegin(j))

\* C12 witness: the first recording's worker failed (the engine raised, or the
\* text was not typed) and the next recording was captured, transcribed, typed
\* and reported
C12_Witness ==
    \E i, j \in 1..Len(workers) :
        /\ i < j
        /\ Failed(workers[i])
        /\ workers[j].st = "done"
        /\ workers[j].audio = Concatenate(captured[workers[j].rec])
        /\ workers[j].typed = 1 /\ workers[j].ok /\ workers[j].notified = 1

\* worker i ends in this step
Completes(i) ==
    /\ workers[i].st \notin {"done", "escaped"}
    /\ workers'[i].st \in {"done", "escaped"}

\* C13: the step in which a worker ends leaves running, recording, the recording
\* start time, the audio buffer, the open stream and the status file unchanged
C13_WorkerCompletionFrame ==
    [][(\E i \in 1..Len(workers) : Completes(i)) =>
          UNCHANGED <<running, recording, startTime, chunks, stream, openStreams,
                      statusExists, statusFile>>]_vars

\* C13 witness: a worker has ended, its text typed, while the next recording is
\* being captured
C13_Witness ==
    /\ recording
    /\ stream \in openStreams
    /\ chunks # <<>>
    /\ \E i \in 1..Len(workers) :
          workers[i].st = "done" /\ workers[i].typed = 1 /\ workers[i].rec < stream

\* C14: a worker calls the typer at most once and on_transcription at most once;
\* one that has ended with a non-empty stripped text has called each exactly
\* once, whether or not the text was typed; one whose stripped text is empty has
\* called neither
C14_EachResultForwardedOnce ==
    \A i \in 1..Len(workers) :
        /\ workers[i].typed <= 1
        /\ workers[i].notified <= 1
        /\ (workers[i].st = "done" /\ workers[i].text # <<>>) =>
              (workers[i].typed = 1 /\ workers[i].notified = 1)
        /\ workers[i].text = <<>> => (workers[i].typed = 0 /\ workers[i].notified = 0)
        /\ workers[i].text # <<>> =>
              (Head(workers[i].text) # " " /\ workers[i].text[Len(workers[i].text)] # " ")

\* C14 witness: two workers overlap and the second recording's ends first, its
\* text not typed but reported, while the first's is still typing
C14_Witness ==
    /\ Len(workers) = 2
    /\ workers[1].st = "type"
    /\ workers[2].st = "done"
    /\ ~workers[2].ok
    /\ workers[2].notified = 1

\* C15: a worker that was in flight when stop() was called is not cut short by
\* it: when it has ended, the engine has been called with its audio
C15_StopSparesWorkers ==
    \A i \in 1..Len(workers) :
        (workers[i].st = "done" /\ ~workers[i].late) => workers[i].called

\* the client's call of op has returned or raised
Returned(op) == cPc = "idle" /\ cRet.op = op

\* C16: is_running() returns a boolean and never raises, whatever the PID file
\* holds and whatever other processes do to it meanwhile; a PID file that was
\* missing or corrupt when the call looked yields false
C16_IsRunningNeverRaises ==
    Returned("is_running") =>
        /\ cRet.ret \in {"true", "false"}
        /\ cSaw \in {0, Empty, Garbage} => cRet.ret = "false"

\* C17: a call of is_running() that found the PID of no live process in the PID
\* file returns false and leaves no PID file behind; a call that reads the PID of
\* a live daemon returns true and leaves the file as it is
C17_StalePidHeals ==
    [][(cPc = "ir_read" /\ cPc' = "idle") =>
          /\ cSaw = StalePid => (cRet'.ret = "false" /\ pidFile' = 0)
          /\ (Parses(pidFile) /\ Alive(pidFile)) =>
                (cRet'.ret = "true" /\ pidFile' = pidFile)]_vars

\* C18: stop_daemon() never raises; it returns false and sends no signal when
\* there was no PID file or no PID in it; when it returns true it has sent
\* SIGTERM to the PID it read; when the process of that PID is gone it returns
\* false and removes the PID file
C18_StopDaemonResult ==
    Returned("stop_daemon") =>
        /\ cRet.ret \in {"true", "false"}
        /\ cSaw \in {0, Empty, Garbage} => (cRet.ret = "false" /\ sigterm = {})
        /\ cRet.ret = "true" <=> sigterm = {cPid}
        /\ cSaw = StalePid => cRet.ret = "false"

Stopped ==
    /\ mainPc = "idle"
    /\ lastCall = IF mode = "daemon" THEN "cleanup_done" ELSE "stop_done"

\* C20: once stop() (in daemon mode, stop() and the daemon's cleanup) has
\* returned and the status file is deleted, no toggle event handled late
\* recreates it: it stays absent until the next start() is called
C20_NoLateStatus == [][(Stopped /\ ~statusExists) => ~statusExists']_vars

\* process p is past the guard of run_daemon with its PID written
PastGuard(p) == dPc[p] \in {"write_status", "serving"}

\* C21: from the write of its PID until it exits the daemon's PID file exists
\* and names it, and when the process has ended, by whichever path, the PID file
\* it wrote and the status file are gone
C21_PidFileLifecycle ==
    /\ [](\A p \in Procs : PastGuard(p) => pidFile = p)
    /\ [][\A p \in Procs :
            (PastGuard(p) /\ dPc'[p] \in {"exited", "crashed"}) =>
                (pidFile' # p /\ ~statusExists')]_vars

\* the owner calls start() in this step
StartCalled == mainPc = "idle" /\ calls' = calls + 1 /\ lastCall' # "stop"

\* C22: start() on a running session returns at once and changes nothing: no
\* attribute of the session, no listener created or started, no model or audio
\* handle created, the status file not written
C22_SecondStartNoOp ==
    [][(StartCalled /\ running) =>
          /\ mainPc' = "idle"
          /\ UNCHANGED <<running, recording, startTime, engine, audio, stream,
                         openStreams, chunks, hotkey, starts, hkRunning, hkIsRec, hkDev,
                         hkPc, workers, statusExists, statusFile>>]_vars

\* C22 witness: the owner's last call was a start() that returned at once, and
\* the session records through the one listener and the one audio handle of the
\* first start()
C22_Witness ==
    /\ lastCall = "start_noop"
    /\ running /\ recording
    /\ starts = 1 /\ hotkey = 1 /\ hkRunning[1]
    /\ audio /\ stream \in openStreams

\* C23: the recording start time is set exactly when recording is true, and once
\* stop() has returned, with no toggle handler still at work, it is cleared
C23_StartTimeIffRecording ==
    /\ recording <=> startTime # 0
    /\ (Quiescent /\ lastCall = "stop_done") => startTime = 0

\* C27: in every quiescent state of a session that has not been stopped, an audio
\* stream is open, and the session holds it, exactly when recording is true
C27_StreamIffRecording ==
    (Quiescent /\ ~stopped) => (recording <=> (stream # 0 /\ stream \in openStreams))

\* C28: once stop() has returned and every worker, all of them started before
\* stop() was called, has ended, the model is not loaded
C28_UnloadedAfterStop ==
    (/\ mainPc = "idle"
     /\ lastCall = "stop_done"
     /\ \A i \in 1..Len(workers) : workers[i].st \in {"done", "escaped"} /\ ~workers[i].late)
        => engine # "loaded"

\* the ways run_daemon ends
Ended == {"rejected", "exited", "failed", "crashed"}

\* status and stop: the status of `status` is 0 exactly when is_running() returned
\* true, that of `stop` is 0 exactly when the call sent SIGTERM, and both are 0 or 1
ClientStatus ==
    /\ Returned("is_running") =>
          /\ CmdStatus(cRet.ret) \in {0, 1}
          /\ CmdStatus(cRet.ret) = 0 <=> cRet.ret = "true"
    /\ Returned("stop_daemon") =>
          /\ CmdStop(cRet.ret) \in {0, 1}
          /\ CmdStop(cRet.ret) = 0 <=> sigterm # {}

\* daemon: a process whose is_running() finds the PID of a live process is
\* rejected, and a process is rejected only so, with status 1 and with the PID
\* file and the status file as they were
RejectedIffRunning ==
    \A p \in Procs :
        /\ (dPc[p] = "probe" /\ dPc'[p] # "probe" /\ Parses(pidFile) /\ Alive(pidFile))
              => dPc'[p] = "rejected"
        /\ (dPc[p] # "rejected" /\ dPc'[p] = "rejected") =>
              /\ Parses(pidFile) /\ Alive(pidFile)
              /\ CmdDaemon(dPc'[p]) = 1
              /\ UNCHANGED <<pidFile, statusExists, statusFile, statusText>>

F13Downs == Cardinality({i \in 1..Len(events) : events[i] = "f13_down"})

\* C26: on_toggle is called only for F13 key-down events, once each: as often as
\* such events were read when no event is being handled and stop() has not been
\* called; the values delivered alternate, beginning with true; and no call is
\* made once stop() has returned
C26_OneCallPerKeyDown ==
    /\ Len(delivered) <= F13Downs
    /\ (mainPc = "idle" /\ \A l \in Listeners : hkPc[l] \in {"none", "read", "dead"})
          => Len(delivered) = F13Downs
    /\ \A i \in 1..Len(delivered) : delivered[i].val = (i % 2 = 1)
    /\ \A i \in 1..Len(delivered) : ~delivered[i].late

\* C24: no progress signal and no finished signal is emitted once cancel() has
\* been called, and a run that detects the cancellation emits no error signal
C24_NoResultAfterCancel ==
    \A i \in 1..Len(gLog) : gLog[i].sig \in {"progress", "finished"} => ~gLog[i].late

\* the run has ended as cancelled: cancel() was called and finished not emitted
EndedCancelled ==
    /\ gPc = <<"ended", 0>>
    /\ gCancelled
    /\ \A i \in 1..Len(gLog) : gLog[i].sig # "finished"

\* C29: a run that ended as cancelled has written no transcript file
C29_CancelledWritesNothing == EndedCancelled => ~gSaved

\* the speaker turns that share time with transcription segment t
Sharing(t) == {j \in 1..Len(mSegs) : Overlap(t, mSegs[j]) > 0}

\* turn j shares the most time with t, and is the first in the list to do so
FirstGreatest(t, j) ==
    /\ j \in Sharing(t)
    /\ \A k \in 1..Len(mSegs) : Overlap(t, mSegs[k]) <= Overlap(t, mSegs[j])
    /\ \A k \in 1..(j - 1) : Overlap(t, mSegs[k]) < Overlap(t, mSegs[j])

\* C30: merge_with_transcription returns one SpeakerSegment per transcription
\* segment, in order, with its start, its end and its stripped text, and with the
\* speaker of the first turn among those sharing the most time with it, or
\* "Unknown" when no turn shares time with it; the two lists stay as they were
C30_MergeBySpeaker ==
    /\ [](mOut # <<>> =>
            /\ Len(mOut[1]) = Len(mTrans)
            /\ \A i \in 1..Len(mTrans) :
                  /\ mOut[1][i].start = mTrans[i].start
                  /\ mOut[1][i].end = mTrans[i].end
                  /\ mOut[1][i].text = Strip(mTrans[i].text)
                  /\ Sharing(mTrans[i]) = {} => mOut[1][i].speaker = "Unknown"
                  /\ \A j \in 1..Len(mSegs) :
                        FirstGreatest(mTrans[i], j) =>
                            mOut[1][i].speaker = mSegs[j].speaker)
    /\ [][mSegs' = mSegs /\ mTrans' = mTrans]_vars

\* C30 witness: the call has returned; two turns of different speakers share the
\* same, greatest, time with the first segment, which got the first one's
\* speaker; the second segment, its text stripped of blanks, shares time with no
\* turn and got "Unknown"
C30_Witness ==
    /\ mOut # <<>>
    /\ Len(mTrans) = 2 /\ Len(mSegs) = 2
    /\ mSegs[1].speaker # mSegs[2].speaker
    /\ Overlap(mTrans[1], mSegs[1]) = Overlap(mTrans[1], mSegs[2])
    /\ Overlap(mTrans[1], mSegs[1]) > 0
    /\ mOut[1][1].speaker = mSegs[1].speaker
    /\ Sharing(mTrans[2]) = {}
    /\ mOut[1][2].speaker = "Unknown"
    /\ mTrans[2].text # mOut[1][2].text

====
